---- MODULE Spec2Model ----
(***************************************************************************)
(* A model of the Cue orchestrator of go-cuei (cue.go): Decode, Encode,    *)
(* rollLoop, dscptrLoop, AdjustPts, mkSpliceInsert and Six2Five, over a    *)
(* byte-level model of the SCTE-35 section.                                *)
(*                                                                         *)
(* cue.go calls the bit reader/writer, the InfoSection, Command and        *)
(* Descriptor codecs, the checksum and hex2Int/isIn, none of which live in *)
(* cue.go.  They are modelled here from the layouts of the specification   *)
(* (sections 4.1 to 4.5).  Values wider than 31 bits (PTS, durations,      *)
(* event ids, the checksum) are kept as pairs <<hi, lo>> standing for      *)
(* hi * 65536 + lo with lo in 0..65535, so that no arithmetic leaves the   *)
(* range of the model checker's integers.  Times are kept in 90 kHz ticks. *)
(***************************************************************************)
EXTENDS Integers, Sequences, FiniteSets, TLC

VARIABLES
    scn,      \* the caller data of the run (chosen in Init)
    msg,      \* the message of the run: the bytes handed to Decode
    cue,      \* the Cue instance: InfoSection, Command, Dll, Descriptors, Crc32
    out,      \* the bytes returned by the last Encode of the instance
    ok,       \* what the last Decode returned
    op,       \* the last operation called on the instance
    arg,      \* the argument of the last AdjustPts
    loopI,    \* the value of dscptrLoop's counter i when the last loop ended
    loopN,    \* the number of iterations of the last dscptrLoop
    pre,      \* cue, out and op as they were before the last operation
    steps     \* the number of methods called on the instance so far

vars == <<scn, msg, cue, out, ok, op, arg, loopI, loopN, pre, steps>>

-----------------------------------------------------------------------------
(* Bounds of the model.                                                    *)

\* the longest descriptor sequence of a message or of a caller-built cue
MaxDescs == 2
\* the number of methods called on the one Cue instance
MaxSteps == 2

-----------------------------------------------------------------------------
(* Bytes, wide integers, pointers.                                         *)

Radix == 256 * 256

\* a nil pointer is the empty sequence, a pointer to x is <<x>>
Nil == <<>>
Ptr(x) == <<x>>
Deref(p) == p[1]

\* the byte at index i of b (1-based); 0 beyond the end
At(b, i) == IF 1 <= i /\ i <= Len(b) THEN b[i] ELSE 0

Slice(b, from, n) == [k \in 1..n |-> At(b, from + k - 1)]

WZero == <<0, 0>>
WAdd(a, x) == <<a[1] + x[1] + ((a[2] + x[2]) \div Radix), (a[2] + x[2]) % Radix>>
WPositive(a) == a[1] > 0 \/ (a[1] = 0 /\ a[2] > 0)
\* a fits the 33-bit unsigned field
InRange33(a) == a[1] >= 0 /\ a[1] < 2 * Radix

BoolBit(f) == IF f THEN 1 ELSE 0

\* a 32-bit value as four bytes, high byte first (the low 32 bits of a)
Enc32(a) == << (a[1] \div 256) % 256, a[1] % 256, a[2] \div 256, a[2] % 256 >>
Dec32(b, p) == << At(b, p) * 256 + At(b, p + 1), At(b, p + 2) * 256 + At(b, p + 3) >>

\* a 7-bit prefix followed by a 33-bit value: five bytes (the low 33 bits of a)
Enc33(prefix7, a) == << (prefix7 % 128) * 2 + ((a[1] \div Radix) % 2) >> \o Enc32(a)
Dec33(b, p) == << (At(b, p) % 2) * Radix + At(b, p + 1) * 256 + At(b, p + 2),
                  At(b, p + 3) * 256 + At(b, p + 4) >>

\* a 40-bit value as five bytes
Enc40(a) == << (a[1] \div Radix) % 256 >> \o Enc32(a)
Dec40(b, p) == << At(b, p) * Radix + At(b, p + 1) * 256 + At(b, p + 2),
                  At(b, p + 3) * 256 + At(b, p + 4) >>

-----------------------------------------------------------------------------
(* InfoSection codec (specification 4.3).                                  *)

TableIDConst == 252

ZeroInfoSection ==
    [ TableID |-> 0, SectionLength |-> 0, ProtocolVersion |-> 0,
      EncryptedPacket |-> FALSE, EncryptionAlgorithm |-> 0,
      PtsAdjustment |-> WZero, CwIndex |-> 0, Tier |-> 0,
      CommandLength |-> 0, CommandType |-> 0 ]

InfoSectionLen == 14

\* InfoSection.Decode(bd): [ok, is, pos]; on a table-identifier mismatch only
\* the table identifier has been read.  The section-syntax and reserved bits
\* are read and not kept.
InfoSectionDecode(b, p) ==
    IF At(b, p) # TableIDConst
    THEN [ok |-> FALSE, is |-> [ZeroInfoSection EXCEPT !.TableID = At(b, p)],
          pos |-> p + 1]
    ELSE [ok |-> TRUE,
          is |-> [ TableID |-> At(b, p),
                   SectionLength |-> (At(b, p + 1) % 16) * 256 + At(b, p + 2),
                   ProtocolVersion |-> At(b, p + 3),
                   EncryptedPacket |-> At(b, p + 4) \div 128 = 1,
                   EncryptionAlgorithm |-> (At(b, p + 4) \div 2) % 64,
                   PtsAdjustment |-> Dec33(b, p + 4),
                   CwIndex |-> At(b, p + 9),
                   Tier |-> At(b, p + 10) * 16 + (At(b, p + 11) \div 16),
                   CommandLength |-> (At(b, p + 11) % 16) * 256 + At(b, p + 12),
                   CommandType |-> At(b, p + 13) ],
          pos |-> p + InfoSectionLen]

\* InfoSection.Encode(): the 14 bytes of the header: the table-identifier
\* constant, the section-syntax and private bits unset, the two reserved bits
\* set, and each field cut to its width
InfoSectionEncode(is) ==
    << TableIDConst,
       3 * 16 + ((is.SectionLength % 4096) \div 256),
       is.SectionLength % 256,
       is.ProtocolVersion % 256 >>
    \o Enc33(BoolBit(is.EncryptedPacket) * 64 + (is.EncryptionAlgorithm % 64),
             is.PtsAdjustment)
    \o << is.CwIndex % 256,
          (is.Tier % 4096) \div 16,
          (is.Tier % 16) * 16 + ((is.CommandLength % 4096) \div 256),
          is.CommandLength % 256,
          is.CommandType % 256 >>

-----------------------------------------------------------------------------
(* Command codec (specification 4.4): Splice Insert (5) and Time Signal    *)
(* (6), the two commands Encode is written for.  Component lists (a Splice *)
(* Insert with programSpliceFlag unset) are not modelled.                  *)

ZeroCommand ==
    [ CommandType |-> 0, Name |-> "", SpliceEventID |-> WZero,
      SpliceEventCancelIndicator |-> FALSE, OutOfNetworkIndicator |-> FALSE,
      ProgramSpliceFlag |-> FALSE, DurationFlag |-> FALSE,
      BreakAutoReturn |-> FALSE, BreakDuration |-> WZero,
      SpliceImmediateFlag |-> FALSE, TimeSpecifiedFlag |-> FALSE,
      PTS |-> WZero, AvailNum |-> 0, AvailExpected |-> 0 ]

\* splice_time(): time_specified_flag, reserved bits, and a 33-bit PTS if flagged
SpliceTimeEncode(flag, pts) == IF flag THEN Enc33(127, pts) ELSE << 127 >>
SpliceTimeLen(b, p) == IF At(b, p) \div 128 = 1 THEN 5 ELSE 1
SpliceTimeFlag(b, p) == At(b, p) \div 128 = 1
SpliceTimePts(b, p) == IF SpliceTimeFlag(b, p) THEN Dec33(b, p) ELSE WZero

TimeSignalDecode(b, p) ==
    [ cmd |-> [ZeroCommand EXCEPT !.CommandType = 6, !.Name = "Time Signal",
                                  !.TimeSpecifiedFlag = SpliceTimeFlag(b, p),
                                  !.PTS = SpliceTimePts(b, p)],
      pos |-> p + SpliceTimeLen(b, p) ]

SpliceInsertDecode(b, p) ==
    LET base   == [ZeroCommand EXCEPT !.CommandType = 5, !.Name = "Splice Insert",
                                      !.SpliceEventID = Dec32(b, p),
                                      !.SpliceEventCancelIndicator = At(b, p + 4) \div 128 = 1]
        fl     == At(b, p + 5)
        oon    == fl \div 128 = 1
        psf    == (fl \div 64) % 2 = 1
        df     == (fl \div 32) % 2 = 1
        sif    == (fl \div 16) % 2 = 1
        hasT   == psf /\ ~sif
        p1     == p + 6
        p2     == IF hasT THEN p1 + SpliceTimeLen(b, p1) ELSE p1
        p3     == IF df THEN p2 + 5 ELSE p2
    IN  IF base.SpliceEventCancelIndicator
        THEN [cmd |-> base, pos |-> p + 5]
        ELSE [cmd |-> [base EXCEPT
                         !.OutOfNetworkIndicator = oon,
                         !.ProgramSpliceFlag = psf,
                         !.DurationFlag = df,
                         !.SpliceImmediateFlag = sif,
                         !.TimeSpecifiedFlag = hasT /\ SpliceTimeFlag(b, p1),
                         !.PTS = IF hasT THEN SpliceTimePts(b, p1) ELSE WZero,
                         !.BreakAutoReturn = df /\ At(b, p2) \div 128 = 1,
                         !.BreakDuration = IF df THEN Dec33(b, p2) ELSE WZero,
                         !.AvailNum = At(b, p3),
                         !.AvailExpected = At(b, p3 + 1)],
              pos |-> p3 + 2]

\* Command.Decode(commandType, bd)
CommandDecode(cmdType, b, p) ==
    CASE cmdType = 5 -> SpliceInsertDecode(b, p)
      [] cmdType = 6 -> TimeSignalDecode(b, p)
      [] OTHER -> [cmd |-> [ZeroCommand EXCEPT !.CommandType = cmdType], pos |-> p]

\* Command.Encode(): the serialized command; its length becomes commandLength
CommandEncode(c) ==
    CASE c.CommandType = 6 -> SpliceTimeEncode(c.TimeSpecifiedFlag, c.PTS)
      [] c.CommandType = 5 ->
            Enc32(c.SpliceEventID)
            \o << BoolBit(c.SpliceEventCancelIndicator) * 128 + 127 >>
            \o (IF c.SpliceEventCancelIndicator THEN << >>
                ELSE << BoolBit(c.OutOfNetworkIndicator) * 128
                        + BoolBit(c.ProgramSpliceFlag) * 64
                        + BoolBit(c.DurationFlag) * 32
                        + BoolBit(c.SpliceImmediateFlag) * 16 + 15 >>
                     \o (IF c.ProgramSpliceFlag /\ ~c.SpliceImmediateFlag
                         THEN SpliceTimeEncode(c.TimeSpecifiedFlag, c.PTS)
                         ELSE << >>)
                     \o (IF c.DurationFlag
                         THEN Enc33(BoolBit(c.BreakAutoReturn) * 64 + 63, c.BreakDuration)
                         ELSE << >>)
                     \o << c.AvailNum % 256, c.AvailExpected % 256 >>)
      [] OTHER -> << >>

-----------------------------------------------------------------------------
(* Descriptor codec (specification 4.5): Segmentation (tag 2) and the      *)
(* fallback for unknown tags.  Segmentation components (a descriptor with  *)
(* programSegmentationFlag unset) are not modelled.                        *)

\* "CUEI", the identifier at the start of every descriptor body
Cuei == << 67, 85, 69, 73 >>

SegmentationTag == 2

\* the segmentation types that carry sub-segment fields
SubSegmentTypes == {52, 54, 56, 58}

ZeroDescriptor ==
    [ Tag |-> 0, Payload |-> << >>, SegmentationEventID |-> << >>,
      SegmentationEventCancelIndicator |-> FALSE,
      ProgramSegmentationFlag |-> FALSE, SegmentationDurationFlag |-> FALSE,
      DeliveryNotRestrictedFlag |-> FALSE, RestrictionFlags |-> 0,
      SegmentationDuration |-> WZero, SegmentationUpidType |-> 0,
      SegmentationUpid |-> << >>, SegmentationTypeID |-> 0,
      SegmentNum |-> 0, SegmentsExpected |-> 0,
      SubSegmentNum |-> 0, SubSegmentsExpected |-> 0 ]

\* the hexadecimal digits of a 32-bit value, most significant first, without
\* leading zeros ("0" for zero): the numeral an event id is kept as
RECURSIVE StripZeros(_)
StripZeros(ds) ==
    IF Len(ds) > 1 /\ ds[1] = 0 THEN StripZeros(Tail(ds)) ELSE ds

asHex(a) ==
    StripZeros(<< a[1] \div 4096, (a[1] \div 256) % 16, (a[1] \div 16) % 16, a[1] % 16,
                  a[2] \div 4096, (a[2] \div 256) % 16, (a[2] \div 16) % 16, a[2] % 16 >>)

\* hex2Int: the value of a hexadecimal numeral, digit by digit
RECURSIVE hex2IntFrom(_, _)
hex2IntFrom(acc, ds) ==
    IF ds = << >> THEN acc
    ELSE hex2IntFrom(<< acc[1] * 16 + (acc[2] \div 4096), (acc[2] % 4096) * 16 + ds[1] >>,
                     Tail(ds))

hex2Int(ds) == hex2IntFrom(WZero, ds)

\* uint32(x): the low 32 bits
uint32(a) == << a[1] % Radix, a[2] >>

isIn(set, x) == x \in set

\* the body of a segmentation descriptor after the identifier
SegmentationEncode(d) ==
    Enc32(hex2Int(d.SegmentationEventID))
    \o << BoolBit(d.SegmentationEventCancelIndicator) * 128 + 127 >>
    \o (IF d.SegmentationEventCancelIndicator THEN << >>
        ELSE << BoolBit(d.ProgramSegmentationFlag) * 128
                + BoolBit(d.SegmentationDurationFlag) * 64
                + BoolBit(d.DeliveryNotRestrictedFlag) * 32
                + (d.RestrictionFlags % 32) >>
             \o (IF d.SegmentationDurationFlag THEN Enc40(d.SegmentationDuration)
                 ELSE << >>)
             \o << d.SegmentationUpidType % 256, Len(d.SegmentationUpid) % 256 >>
             \o d.SegmentationUpid
             \o << d.SegmentationTypeID % 256, d.SegmentNum % 256,
                   d.SegmentsExpected % 256 >>
             \o (IF d.SegmentationTypeID \in SubSegmentTypes
                 THEN << d.SubSegmentNum % 256, d.SubSegmentsExpected % 256 >>
                 ELSE << >>))

\* p is the index of the first byte after the identifier
SegmentationDecode(b, p) ==
    LET base == [ZeroDescriptor EXCEPT
                    !.Tag = SegmentationTag,
                    !.SegmentationEventID = asHex(Dec32(b, p)),
                    !.SegmentationEventCancelIndicator = At(b, p + 4) \div 128 = 1]
        fl   == At(b, p + 5)
        sdf  == (fl \div 64) % 2 = 1
        p1   == IF sdf THEN p + 11 ELSE p + 6
        ulen == At(b, p1 + 1)
        p2   == p1 + 2 + ulen
        tid  == At(b, p2)
        sub  == tid \in SubSegmentTypes
    IN  IF base.SegmentationEventCancelIndicator THEN base
        ELSE [base EXCEPT
                !.ProgramSegmentationFlag = fl \div 128 = 1,
                !.SegmentationDurationFlag = sdf,
                !.DeliveryNotRestrictedFlag = (fl \div 32) % 2 = 1,
                !.RestrictionFlags = fl % 32,
                !.SegmentationDuration = IF sdf THEN Dec40(b, p + 6) ELSE WZero,
                !.SegmentationUpidType = At(b, p1),
                !.SegmentationUpid = Slice(b, p1 + 2, ulen),
                !.SegmentationTypeID = tid,
                !.SegmentNum = At(b, p2 + 1),
                !.SegmentsExpected = At(b, p2 + 2),
                !.SubSegmentNum = IF sub THEN At(b, p2 + 3) ELSE 0,
                !.SubSegmentsExpected = IF sub THEN At(b, p2 + 4) ELSE 0]

\* Descriptor.Decode(bd, tag, length): reads the identifier and the body, and
\* consumes exactly length bytes; p is the index of the first of them
DescriptorDecode(b, p, tag, length) ==
    [ d   |-> IF tag = SegmentationTag THEN SegmentationDecode(b, p + 4)
              ELSE [ZeroDescriptor EXCEPT !.Tag = tag,
                                          !.Payload = Slice(b, p + 4, length - 4)],
      pos |-> p + length ]

\* Descriptor.Encode(be): the body after the identifier
DescriptorEncode(d) ==
    IF d.Tag = SegmentationTag THEN SegmentationEncode(d) ELSE d.Payload

-----------------------------------------------------------------------------
(* Bit writer (specification 4.2) and checksum.                            *)

\* be.AddBytes(bytes, nbits): appends the low nbits of bytes
AddBytes(acc, bytes, nbits) ==
    acc \o [k \in 1..(nbits \div 8) |-> At(bytes, Len(bytes) - (nbits \div 8) + k)]

\* be.Add(v, 16)
Add16(acc, v) == acc \o << (v \div 256) % 256, v % 256 >>

\* the sums of b[k] and of k * b[k] over k in from..to, each cut to 16 bits
RECURSIVE ByteSums(_, _, _)
ByteSums(b, from, to) ==
    IF from > to THEN << 0, 0 >>
    ELSE IF from = to THEN << (from * b[from]) % Radix, b[from] >>
    ELSE LET mid == (from + to) \div 2
             l   == ByteSums(b, from, mid)
             r   == ByteSums(b, mid + 1, to)
         IN  << (l[1] + r[1]) % Radix, (l[2] + r[2]) % Radix >>

\* cRC32(bytes): a 32-bit check value of every byte given.  The model keeps a
\* position-weighted sum and a plain sum in place of the CRC polynomial: like
\* the CRC, it is a function of the bytes alone.
cRC32(b) ==
    LET sums == ByteSums(b, 1, Len(b))
    IN  << sums[1], (sums[2] + Len(b)) % Radix >>

-----------------------------------------------------------------------------
(* The Cue of cue.go.                                                      *)

uint16(x) == x % Radix

\* NewCue(): every field nil or zero
NewCue ==
    [ InfoSection |-> Nil, Command |-> Nil, Dll |-> 0, Descriptors |-> << >>,
      Crc32 |-> WZero ]

\* dscptrLoop(dll, bd): from a state of the loop (counter i, read position pos,
\* descriptors so far, iterations so far) to the state it ends in
RECURSIVE dscptrLoopFrom(_, _, _, _, _, _)
dscptrLoopFrom(l, b, pos, i, descs, n) ==
    IF ~(i < l) THEN [descs |-> descs, pos |-> pos, i |-> i, n |-> n]
    ELSE LET tag    == At(b, pos)
             length == At(b, pos + 1)
             r      == DescriptorDecode(b, pos + 2, tag, length % 256)
         IN  dscptrLoopFrom(l, b, r.pos, uint16(uint16(uint16(i + 1) + 1) + length),
                            Append(descs, r.d), n + 1)

\* a slip in dscptrLoop: the length byte left out of the count
RECURSIVE dscptrLoopShortCount(_, _, _, _, _, _)
dscptrLoopShortCount(l, b, pos, i, descs, n) ==
    IF ~(i < l) THEN [descs |-> descs, pos |-> pos, i |-> i, n |-> n]
    ELSE LET tag    == At(b, pos)
             length == At(b, pos + 1)
             r      == DescriptorDecode(b, pos + 2, tag, length % 256)
         IN  dscptrLoopShortCount(l, b, r.pos, uint16(uint16(i + 1) + length),
                                  Append(descs, r.d), n + 1)

dscptrLoopOffByOne(dll, b, pos, descs) == dscptrLoopShortCount(dll, b, pos, 0, descs, 0)

dscptrLoop(dll, b, pos, descs) == dscptrLoopFrom(dll, b, pos, 0, descs, 0)

\* the order in which decodeBytes reads the parts that follow the header
ReadCommandThenLoop(c, b, h) ==
    LET k   == CommandDecode(h.is.CommandType, b, h.pos)
        dll == At(b, k.pos) * 256 + At(b, k.pos + 1)
        lp  == dscptrLoop(dll, b, k.pos + 2, c.Descriptors)
    IN  [ cue |-> [c EXCEPT !.Command = Ptr(k.cmd), !.Dll = dll,
                            !.Descriptors = lp.descs,
                            !.Crc32 = Dec32(b, lp.pos)],
          ok |-> TRUE, i |-> lp.i, n |-> lp.n ]

\* decodeBytes(bites): the cue after the call, what it returns, and the final
\* counter and iteration count of the descriptor loop
decodeBytes(c, bites) ==
    LET h  == InfoSectionDecode(bites, 1)
        c1 == [c EXCEPT !.InfoSection = Ptr(h.is)]
    IN  IF h.ok THEN ReadCommandThenLoop(c1, bites, h)
        ELSE [cue |-> c1, ok |-> FALSE, i |-> 0, n |-> 0]

\* the bytes rollLoop writes for one descriptor: tag, length, identifier, body
RollOne(d) ==
    << d.Tag % 256, (Len(<< 1 >> \o DescriptorEncode(d)) + 3) % 256 >>
    \o Cuei \o DescriptorEncode(d)

RECURSIVE RollFrom(_, _)
RollFrom(descs, k) ==
    IF k > Len(descs) THEN << >> ELSE RollOne(descs[k]) \o RollFrom(descs, k + 1)

\* rollLoop(): the descriptor loop bytes, and the Dll it stores
rollLoop(c) ==
    LET be == << 1 >> \o RollFrom(c.Descriptors, 1)
    IN  [ cue |-> [c EXCEPT !.Dll = uint16(Len(be) - 1)], bytes |-> Tail(be) ]

\* the SectionLength Encode stores (cue.go line 116)
EncodeSectionLength(cmdl, dll) == uint16(uint16(11 + cmdl + 2 + 4) + dll)

\* a slip in Encode: the loop length written as one byte
EncodeDllOneByte(acc, dll) == acc \o << dll % 256 >>

\* the loop-length field Encode writes (cue.go line 124)
EncodeDll(acc, dll) == Add16(acc, dll)

\* Encode(): the cue after the call and the bytes returned
Encode(c) ==
    LET cmdb  == CommandEncode(Deref(c.Command))
        cmdl  == Len(cmdb)
        is1   == [Deref(c.InfoSection) EXCEPT
                    !.CommandLength = uint16(cmdl),
                    !.CommandType = Deref(c.Command).CommandType,
                    !.SectionLength = EncodeSectionLength(cmdl, c.Dll)]
        isecb == InfoSectionEncode(is1)
        be1   == AddBytes(AddBytes(<< >>, isecb, Len(isecb) * 8), cmdb, cmdl * 8)
        rl    == rollLoop([c EXCEPT !.InfoSection = Ptr(is1)])
        be2   == AddBytes(EncodeDll(be1, rl.cue.Dll), rl.bytes, uint16(rl.cue.Dll * 8))
        crc   == cRC32(be2)
    IN  [ cue |-> [rl.cue EXCEPT !.Crc32 = crc], bytes |-> be2 \o Enc32(crc) ]

\* a slip in AdjustPts: the encode pipeline run before the addition
AdjustPtsEncodeFirst(c, x) ==
    [ cue |-> [Encode(c).cue EXCEPT !.InfoSection =
                  Ptr([Deref(Encode(c).cue.InfoSection) EXCEPT
                          !.PtsAdjustment = WAdd(Deref(c.InfoSection).PtsAdjustment, x)])],
      bytes |-> Encode(c).bytes ]

\* AdjustPts(seconds)
AdjustPts(c, x) ==
    Encode([c EXCEPT !.InfoSection =
               Ptr([Deref(c.InfoSection) EXCEPT
                       !.PtsAdjustment = WAdd(Deref(c.InfoSection).PtsAdjustment, x)])])

\* a slip in mkSpliceInsert: the flags of the old command left as they were
mkSpliceInsertTypeOnly(c) ==
    [c EXCEPT !.Command = Ptr([Deref(c.Command) EXCEPT
                                  !.CommandType = 5, !.Name = "Splice Insert"]),
              !.InfoSection = Ptr([Deref(c.InfoSection) EXCEPT !.CommandType = 5])]

\* mkSpliceInsert()
mkSpliceInsert(c) ==
    LET cmd == [Deref(c.Command) EXCEPT
                   !.CommandType = 5, !.Name = "Splice Insert",
                   !.ProgramSpliceFlag = TRUE,
                   !.SpliceEventCancelIndicator = FALSE,
                   !.OutOfNetworkIndicator = FALSE,
                   !.TimeSpecifiedFlag = WPositive(Deref(c.Command).PTS),
                   !.DurationFlag = FALSE, !.BreakAutoReturn = FALSE,
                   !.SpliceImmediateFlag = FALSE,
                   !.AvailNum = 0, !.AvailExpected = 0]
    IN  [c EXCEPT !.Command = Ptr(cmd),
                  !.InfoSection = Ptr([Deref(c.InfoSection) EXCEPT !.CommandType = 5])]

segStarts == {34, 48, 50, 52, 54, 56, 58, 60, 62, 68, 70}
segStops == {35, 49, 51, 53, 55, 57, 59, 61, 63, 69, 71}

SetCommand(c, f, v) == [c EXCEPT !.Command = Ptr([Deref(c.Command) EXCEPT ![f] = v])]

\* the body of Six2Five's loop for one descriptor
Six2FiveOne(c, dscptr) ==
    IF dscptr.Tag # 2 THEN c
    ELSE LET c1 == SetCommand(c, "SpliceEventID",
                              uint32(hex2Int(dscptr.SegmentationEventID)))
         IN  IF isIn(segStarts, dscptr.SegmentationTypeID)
             THEN IF dscptr.SegmentationDurationFlag
                  THEN SetCommand(
                         SetCommand(
                           SetCommand(
                             SetCommand(mkSpliceInsert(c1), "OutOfNetworkIndicator", TRUE),
                             "DurationFlag", TRUE),
                           "BreakAutoReturn", TRUE),
                         "BreakDuration", dscptr.SegmentationDuration)
                  ELSE c1
             ELSE IF isIn(segStops, dscptr.SegmentationTypeID)
                  THEN mkSpliceInsert(c1)
                  ELSE c1

RECURSIVE Six2FiveFrom(_, _, _)
Six2FiveFrom(c, descs, k) ==
    IF k > Len(descs) THEN c
    ELSE Six2FiveFrom(Six2FiveOne(c, descs[k]), descs, k + 1)

\* Six2Five(): the cue after the call and the bytes of the encoding it returns
\* (as base64 text, a transcoding the model leaves out)
Six2Five(c) ==
    Encode(IF Deref(c.InfoSection).CommandType = 6
           THEN Six2FiveFrom(c, c.Descriptors, 1)
           ELSE c)

-----------------------------------------------------------------------------
(* The messages and caller data of a run.                                  *)

\* the 33-bit maximum
Max33 == << 2 * Radix - 1, Radix - 1 >>

PtsChoices == { Max33 }

\* the signed deltas given to AdjustPts: +1 and -1 tick
Deltas == { << 0, 1 >>, << -1, Radix - 1 >> }

TimeSignal(flag, pts) ==
    [ZeroCommand EXCEPT !.CommandType = 6, !.Name = "Time Signal",
                        !.TimeSpecifiedFlag = flag, !.PTS = pts]

SpliceInsert ==
    [ZeroCommand EXCEPT !.CommandType = 5, !.Name = "Splice Insert",
                        !.SpliceEventID = << 0, 7 >>,
                        !.OutOfNetworkIndicator = TRUE, !.ProgramSpliceFlag = TRUE,
                        !.DurationFlag = TRUE, !.BreakAutoReturn = TRUE,
                        !.BreakDuration = << 82, 26112 >>,
                        !.TimeSpecifiedFlag = TRUE, !.PTS = << 0, 5 >>,
                        !.AvailNum = 1, !.AvailExpected = 2]

CommandChoices ==
    { TimeSignal(FALSE, WZero), TimeSignal(TRUE, WZero),
      TimeSignal(TRUE, << Radix + 1, 2 >>), SpliceInsert }

Segmentation(eventID, typeID, durationFlag, duration) ==
    [ZeroDescriptor EXCEPT
        !.Tag = SegmentationTag, !.SegmentationEventID = asHex(eventID),
        !.ProgramSegmentationFlag = TRUE,
        !.SegmentationDurationFlag = durationFlag,
        !.DeliveryNotRestrictedFlag = TRUE, !.RestrictionFlags = 31,
        !.SegmentationDuration = duration,
        !.SegmentationUpidType = 8, !.SegmentationUpid = << 0, 44 >>,
        !.SegmentationTypeID = typeID, !.SegmentNum = 1, !.SegmentsExpected = 2,
        !.SubSegmentNum = IF typeID \in SubSegmentTypes THEN 1 ELSE 0,
        !.SubSegmentsExpected = IF typeID \in SubSegmentTypes THEN 3 ELSE 0]

Unknown(tag, payload) == [ZeroDescriptor EXCEPT !.Tag = tag, !.Payload = payload]

DescriptorChoices ==
    { Segmentation(<< 18432, 142 >>, 34, TRUE, << 41, 12960 >>),
      Segmentation(<< 0, 17 >>, 54, FALSE, WZero),
      Segmentation(<< 1, 35 >>, 35, FALSE, WZero),
      Unknown(127, << 0, 9 >>) }

\* the sequences of at most n pairwise different elements of S
RECURSIVE SeqsUpTo(_, _)
SeqsUpTo(S, n) ==
    IF n = 0 THEN { << >> }
    ELSE LET shorter == SeqsUpTo(S, n - 1)
         IN  shorter \cup { Append(qx[1], qx[2]) :
                              qx \in { p \in shorter \X S :
                                         \A k \in DOMAIN p[1] : p[1][k] # p[2] } }

Faults == { "none", "short" }

Scenarios ==
    { s \in [ cmd : CommandChoices, pts : PtsChoices,
              descs : SeqsUpTo(DescriptorChoices, MaxDescs), fault : Faults ] :
        s.fault = "short" => s.descs # << >> }

\* one descriptor on the wire
WireDescriptor(d) ==
    << d.Tag, Len(DescriptorEncode(d)) + 4 >> \o Cuei \o DescriptorEncode(d)

RECURSIVE WireLoop(_)
WireLoop(descs) ==
    IF descs = << >> THEN << >> ELSE WireDescriptor(Head(descs)) \o WireLoop(Tail(descs))

\* The message of a scenario, as a conformant producer writes it; with fault
\* "short" the loop-length field is one less than the length of the loop that
\* follows and the checksum is off by one.
Message(s) ==
    LET cmdb == CommandEncode(s.cmd)
        loop == WireLoop(s.descs)
        dll  == IF s.fault = "short" THEN Len(loop) - 1 ELSE Len(loop)
        is   == [ZeroInfoSection EXCEPT
                    !.TableID = TableIDConst,
                    !.SectionLength = 11 + Len(cmdb) + 2 + dll + 4,
                    !.PtsAdjustment = s.pts, !.CwIndex = 255, !.Tier = 4095,
                    !.CommandLength = Len(cmdb),
                    !.CommandType = s.cmd.CommandType]
        body == InfoSectionEncode(is) \o cmdb \o << dll \div 256, dll % 256 >> \o loop
        crc  == cRC32(body)
    IN  body \o Enc32(IF s.fault = "short" THEN << crc[1], (crc[2] + 1) % Radix >> ELSE crc)

\* the same message with another table identifier
WrongTable(b) == [b EXCEPT ![1] = 0]

\* The cue a caller builds from the same data without encoding it: the derived
\* fields (lengths, Dll, checksum) are still zero.
Built(s) ==
    [ InfoSection |-> Ptr([ZeroInfoSection EXCEPT
                              !.TableID = TableIDConst,
                              !.PtsAdjustment = s.pts, !.CwIndex = 255,
                              !.Tier = 4095,
                              !.CommandType = s.cmd.CommandType]),
      Command |-> Ptr(s.cmd), Dll |-> 0, Descriptors |-> s.descs,
      Crc32 |-> WZero ]

-----------------------------------------------------------------------------
(* The state machine: one Cue instance and the calls made on it.           *)

Snapshot == [cue |-> cue, out |-> out, op |-> op]

Init ==
    /\ scn \in Scenarios
    /\ msg = Message(scn)
    /\ cue = NewCue
    /\ out = << >>
    /\ ok = FALSE
    /\ op = "NewCue"
    /\ arg = WZero
    /\ loopI = 0
    /\ loopN = 0
    /\ pre = [cue |-> NewCue, out |-> << >>, op |-> "NewCue"]
    /\ steps = 0

\* usable for Encode, AdjustPts and Six2Five: neither pointer is nil
Usable == cue.InfoSection # Nil /\ cue.Command # Nil

\* what cue.Decode(bytes) does to the instance
Decoded(bytes) ==
    /\ LET r == decodeBytes(cue, bytes)
       IN  /\ cue' = r.cue
           /\ ok' = r.ok
           /\ loopI' = r.i
           /\ loopN' = r.n
    /\ op' = "Decode"
    /\ pre' = Snapshot
    /\ steps' = steps + 1
    /\ UNCHANGED <<scn, msg, out, arg>>

\* cue.Decode(bytes) with the message of the run
DecodeGood ==
    /\ steps < MaxSteps
    /\ Decoded(msg)

\* cue.Decode(bytes) with a message of another table
DecodeWrongTable ==
    /\ steps < MaxSteps
    /\ Decoded(WrongTable(msg))

\* the caller fills a fresh cue in by hand
Build ==
    /\ op = "NewCue"
    /\ cue' = Built(scn)
    /\ op' = "Build"
    /\ pre' = Snapshot
    /\ UNCHANGED <<scn, msg, out, ok, arg, loopI, loopN, steps>>

EncodeCall ==
    /\ steps < MaxSteps
    /\ Usable
    /\ LET r == Encode(cue)
       IN  cue' = r.cue /\ out' = r.bytes
    /\ op' = "Encode"
    /\ pre' = Snapshot
    /\ steps' = steps + 1
    /\ UNCHANGED <<scn, msg, ok, arg, loopI, loopN>>

AdjustPtsCall ==
    /\ steps < MaxSteps
    /\ Usable
    /\ \E x \in Deltas :
          /\ LET r == AdjustPts(cue, x)
             IN  cue' = r.cue /\ out' = r.bytes
          /\ arg' = x
    /\ op' = "AdjustPts"
    /\ pre' = Snapshot
    /\ steps' = steps + 1
    /\ UNCHANGED <<scn, msg, ok, loopI, loopN>>

Six2FiveCall ==
    /\ steps < MaxSteps
    /\ Usable
    /\ LET r == Six2Five(cue)
       IN  cue' = r.cue /\ out' = r.bytes
    /\ op' = "Six2Five"
    /\ pre' = Snapshot
    /\ steps' = steps + 1
    /\ UNCHANGED <<scn, msg, ok, arg, loopI, loopN>>

Next ==
    \/ DecodeGood
    \/ DecodeWrongTable
    \/ Build
    \/ EncodeCall
    \/ AdjustPtsCall
    \/ Six2FiveCall

Spec == Init /\ [][Next]_vars

-----------------------------------------------------------------------------
(* What the properties below speak of.                                     *)

IS == Deref(cue.InfoSection)
CMD == Deref(cue.Command)
PreIS == Deref(pre.cue.InfoSection)
PreCMD == Deref(pre.cue.Command)

\* the methods that run the encode pipeline
Encoders == { "Encode", "AdjustPts", "Six2Five" }

\* the serialized length of a descriptor sequence: per descriptor 2 (tag and
\* length), 4 (identifier) and the length of its body
RECURSIVE LoopLength(_)
LoopLength(descs) ==
    IF descs = << >> THEN 0
    ELSE 2 + 4 + Len(DescriptorEncode(Head(descs))) + LoopLength(Tail(descs))

\* the section_length field of an encoded message: the low 12 bits of bytes 2, 3
WireSectionLength(b) == (At(b, 2) % 16) * 256 + At(b, 3)

\* the PTS adjustment an encoded message decodes to
WirePtsAdjustment(b) == Deref(decodeBytes(NewCue, b).cue.InfoSection).PtsAdjustment

IsSegmentation(d) == d.Tag = SegmentationTag

Segmentations(descs) == SelectSeq(descs, IsSegmentation)

\* the cue was a Time Signal when Six2Five was called
WasTimeSignal == PreIS.CommandType = 6 /\ PreCMD.CommandType = 6

\* no conversion rule of Six2Five applies to cue c
NoRuleApplies(c) ==
    \/ Deref(c.Command).CommandType # 6
    \/ Segmentations(c.Descriptors) = << >>
    \/ \A k \in DOMAIN c.Descriptors :
          LET d == c.Descriptors[k]
          IN  IsSegmentation(d) =>
                 \/ d.SegmentationTypeID \notin (segStarts \cup segStops)
                 \/ d.SegmentationTypeID \in segStarts /\ ~d.SegmentationDurationFlag

-----------------------------------------------------------------------------
(* C1: after every Encode call, the SectionLength stored in InfoSection    *)
(* and serialized in the returned bytes equals 11 + commandLength + 2 + L  *)
(* + 4, with commandLength and L the lengths of the command and of the     *)
(* descriptor loop serialized by that call.  Stated for the runs whose     *)
(* message is conformant.                                                  *)
C1_SectionLength ==
    (op \in Encoders /\ scn.fault = "none") =>
       LET want == 11 + Len(CommandEncode(CMD)) + 2 + LoopLength(cue.Descriptors) + 4
       IN  /\ IS.SectionLength = want
           /\ WireSectionLength(out) = want

C3_EncodeRepeatable ==
    (op = "Encode" /\ pre.op = "Encode" /\ scn.fault = "none") =>
       /\ out = pre.out
       /\ IS.SectionLength = PreIS.SectionLength
       /\ IS.CommandLength = PreIS.CommandLength
       /\ cue.Dll = pre.cue.Dll
       /\ cue.Crc32 = pre.cue.Crc32

(* C4: after every successful Decode and every Encode on one instance,     *)
(* cue.Dll equals the serialized byte length of cue.Descriptors.  Stated   *)
(* for the runs whose message is conformant.                               *)
C4_LoopAccounting ==
    (((op = "Decode" /\ ok) \/ op = "Encode") /\ scn.fault = "none") =>
       cue.Dll = LoopLength(cue.Descriptors)

(* C5: a Decode that fails on the table identifier returns false and       *)
(* leaves InfoSection, Command, Dll, Descriptors and Crc32 exactly as they *)
(* were before the call.                                                   *)
C5_FailedDecodeNoPartialCue ==
    (op = "Decode" /\ ~ok) => cue = pre.cue

C7_Six2FiveTable ==
    (/\ op = "Six2Five"
     /\ WasTimeSignal
     /\ Len(Segmentations(pre.cue.Descriptors)) = 1) =>
       LET d == Segmentations(pre.cue.Descriptors)[1]
       IN  /\ (d.SegmentationTypeID \in segStarts /\ d.SegmentationDurationFlag) =>
                 /\ CMD.CommandType = 5 /\ IS.CommandType = 5
                 /\ CMD.OutOfNetworkIndicator /\ CMD.DurationFlag
                 /\ CMD.BreakAutoReturn /\ CMD.ProgramSpliceFlag
                 /\ CMD.BreakDuration = d.SegmentationDuration
                 /\ asHex(CMD.SpliceEventID) = d.SegmentationEventID
           /\ d.SegmentationTypeID \in segStops =>
                 /\ CMD.CommandType = 5 /\ IS.CommandType = 5
                 /\ asHex(CMD.SpliceEventID) = d.SegmentationEventID
                 /\ ~CMD.OutOfNetworkIndicator /\ ~CMD.DurationFlag
                 /\ ~CMD.BreakAutoReturn

\* a Time Signal with one start-type segmentation descriptor and another
\* descriptor has been converted
C7_Witness ==
    /\ op = "Six2Five"
    /\ WasTimeSignal
    /\ Len(pre.cue.Descriptors) = 2
    /\ Len(Segmentations(pre.cue.Descriptors)) = 1
    /\ Segmentations(pre.cue.Descriptors)[1].SegmentationTypeID \in segStarts
    /\ Segmentations(pre.cue.Descriptors)[1].SegmentationDurationFlag
    /\ CMD.CommandType = 5
    /\ CMD.BreakDuration = << 41, 12960 >>

(* C8: when no conversion rule applies (the Command is not a Time Signal,  *)
(* or there is no Segmentation Descriptor, or every Segmentation           *)
(* Descriptor has a typeID in neither set or in the start set without the  *)
(* duration flag), Six2Five leaves every Command field, the descriptor     *)
(* sequence and InfoSection.CommandType as they were, and still returns an *)
(* encoding.                                                               *)
C8_Six2FiveNoRule ==
    (op = "Six2Five" /\ NoRuleApplies(pre.cue)) =>
       /\ CMD = PreCMD
       /\ cue.Descriptors = pre.cue.Descriptors
       /\ IS.CommandType = PreIS.CommandType
       /\ out # << >>

(* C9: when Six2Five converts a Time Signal into a Splice Insert, a PTS    *)
(* that was present (time-specified flag set, any value, 0 included) is    *)
(* carried over with TimeSpecifiedFlag set, and when there was no PTS the  *)
(* result has TimeSpecifiedFlag unset.                                     *)
C9_PtsCarriedOver ==
    (op = "Six2Five" /\ WasTimeSignal /\ CMD.CommandType = 5) =>
       /\ PreCMD.TimeSpecifiedFlag =>
             (CMD.TimeSpecifiedFlag /\ CMD.PTS = PreCMD.PTS)
       /\ ~PreCMD.TimeSpecifiedFlag => ~CMD.TimeSpecifiedFlag

(* C10 as stated: for every dll and every sequence of declared descriptor  *)
(* lengths, the running counter of Decode's descriptor loop ends equal to  *)
(* dll, never past it, and one descriptor is appended per iteration.       *)
C10_LoopStopsAtDllAnyInput ==
    (op = "Decode" /\ ok) =>
       /\ loopI = cue.Dll
       /\ Len(cue.Descriptors) = Len(pre.cue.Descriptors) + loopN

(* C10 amended: the same, for every message whose loop-length field equals *)
(* the sum, over the descriptors that follow it, of 2 plus the declared    *)
(* length; the loop then runs once per descriptor of the message.          *)
C10_LoopStopsAtDllConsistent ==
    (op = "Decode" /\ ok /\ cue.Dll = Len(WireLoop(scn.descs))) =>
       /\ loopI = cue.Dll
       /\ loopN = Len(scn.descs)
       /\ Len(cue.Descriptors) = Len(pre.cue.Descriptors) + loopN

\* a decode whose loop ran over two descriptors and ended at dll
C10_Witness ==
    /\ op = "Decode" /\ ok
    /\ cue.Dll = Len(WireLoop(scn.descs))
    /\ loopN = 2
    /\ loopI = cue.Dll

====
